---- MODULE Spec2Model ----
(***************************************************************************)
(* A model of KansasSOSCrawler (src/sos_crawler.py): the crawl coordinator *)
(* run_fully_automated_crawler, the handlers it calls, and main.           *)
(*                                                                         *)
(* Text is a sequence of tokens (a token is one character, or a whole      *)
(* literal of the source such as "success"); the empty text <<>> is        *)
(* Python's falsy "".  A dict is a function from key names to values.  A   *)
(* file location is a sequence of path segments below output_dir, a        *)
(* segment being a sequence of tokens; the empty location stands for None. *)
(* Every PageDriver call, file write and operator answer is an outcome the *)
(* environment chooses.                                                    *)
(***************************************************************************)
EXTENDS Naturals, Sequences, FiniteSets, TLC

\* ------------------------------------------------------------ bounds
\* How many of the source's search terms a run is given.
NumTerms == 2
\* The most data rows a results table holds (the header row not counted).
MaxRows == 4

\* The most characters of a business name drawn ahead of its padding.
MaxName == 3
\* the most rows of a detail page's tables in a run of one operation alone
MaxTableRows == 3

\* ------------------------------------------------------------ program constants
\* businesses[:3]
RowLimit == 3
\* re.sub(...)[:30]
NameLimit == 30

AllTerms == <<"AA", "AAB", "AAC", "LLC", "INC", "CORP", "SERVICE", "KANSAS">>
search_terms == SubSeq(AllTerms, 1, NumTerms)

\* ------------------------------------------------------------ text and dicts
Str(s) == <<s>>
Empty == <<>>
\* A character no UTF-8 file write accepts (a lone surrogate): json.dumps with
\* ensure_ascii=False lets it through, f.write raises UnicodeEncodeError,
\* which is a ValueError.
SUR == "\\ud800"
\* the characters \w takes; a lone surrogate is not one
WordChars == {"A", "1", "a", "L", "_"}
Encodable(text) == \A i \in DOMAIN text : text[i] # SUR

Get(d, k) == IF k \in DOMAIN d THEN d[k] ELSE Empty
Has(d, k) == k \in DOMAIN d
Put(d, k, v) == [x \in DOMAIN d \cup {k} |-> IF x = k THEN v ELSE d[x]]
EmptyDict == [x \in {} |-> Empty]
Truthy(text) == text # Empty

Min(a, b) == IF a < b THEN a ELSE b

\* ------------------------------------------------------------ file locations
NoPath == <<>>
Seg(s) == <<s>>
JSON_DIR == Seg("json")
HTML_DIR == Seg("html_fallback")
ERR_DIR == Seg("errors")
\* setup_directories: output_dir and its three subtrees
Directories == {<<>>, <<JSON_DIR>>, <<HTML_DIR>>, <<ERR_DIR>>}
DirOf(path) == SubSeq(path, 1, Len(path) - 1)
\* open(path, 'w') succeeds when the directory exists and the disk accepts it
CanOpen(path, diskOK) == diskOK /\ path # NoPath /\ DirOf(path) \in Directories
\* f"{prefix}{name}{suffix}" where name may hold '/' separators: the prefix
\* joins the first segment, the suffix the last
Affix(prefix, name, suffix) ==
    IF Len(name) = 1 THEN << prefix \o name[1] \o suffix >>
    ELSE << prefix \o name[1] >> \o SubSeq(name, 2, Len(name) - 1)
         \o << name[Len(name)] \o suffix >>
\* filename.replace('.json', '')
StripJson(name) ==
    [i \in DOMAIN name |-> SelectSeq(name[i], LAMBDA t : t # ".json")]

\* ------------------------------------------------------------ serialization
\* A value json refuses (a non-str object); no PageDriver read returns one.
OPAQUE == "<object>"
SUCCESS == Str("success")
NOW == Str("now")
Markup == <<"<", ">">>
\* keys whose value is a file location, a count or a list, not text
PathKeys == {"html_fallback_file"}
NonTextKeys == PathKeys \cup {"total_companies", "search_terms_used", "companies"}
TextKeys(d) == DOMAIN d \ NonTextKeys
\* json.dumps(data, ensure_ascii=False): raises TypeError on a non-JSON value
RECURSIVE DumpsOK(_)
DumpsOK(d) ==
    /\ \A k \in TextKeys(d) : \A i \in DOMAIN d[k] : d[k][i] # OPAQUE
    /\ Has(d, "companies") => \A i \in DOMAIN d["companies"] : DumpsOK(d["companies"][i])
\* json.dump(data, f) into a UTF-8 file: the encoder's TypeError, or the
\* file's UnicodeEncodeError (a ValueError)
RECURSIVE FileDumpOK(_)
FileDumpOK(d) ==
    /\ DumpsOK(d)
    /\ \A k \in TextKeys(d) : Encodable(d[k])
    /\ Has(d, "companies") => \A i \in DOMAIN d["companies"] : FileDumpOK(d["companies"][i])

\* Variant of JsonEscape that writes every character as it is.
JsonEscapeNone(text) == text

\* The string literal json.dump writes for a text (ensure_ascii=False), less
\* its two quotes: a quote and a backslash get a backslash in front, a
\* newline becomes backslash n, any other character stands for itself.
RECURSIVE JsonEscape(_)
JsonEscape(text) ==
    IF text = <<>> THEN <<>>
    ELSE LET c == Head(text)
         IN (CASE c \in {"\"", "\\"} -> <<"\\", c>>
               [] c = "\n" -> <<"\\", "n">>
               [] OTHER -> <<c>>) \o JsonEscape(Tail(text))
\* json.dump(data, f, indent=2, ensure_ascii=False): the file's text, as
\* key -> string literal
JsonDump(d) == [k \in DOMAIN d |-> JsonEscape(d[k])]
\* Reading the file back with a JSON parser: a backslash takes the next
\* character with it (n for a newline, else the character itself)
RECURSIVE JsonUnescape(_)
JsonUnescape(lit) ==
    IF lit = <<>> THEN <<>>
    ELSE IF Head(lit) = "\\" /\ Len(lit) >= 2
    THEN <<IF lit[2] = "n" THEN "\n" ELSE lit[2]>> \o JsonUnescape(Tail(Tail(lit)))
    ELSE <<Head(lit)>> \o JsonUnescape(Tail(lit))
JsonLoad(doc) == [k \in DOMAIN doc |-> JsonUnescape(doc[k])]

\* ------------------------------------------------------------ EvidenceStore
\* One file write: where, what kind of content, and the dict written
\* (EmptyDict for raw markup and for a write cut short).
Artifact(path, kind, body) == [path |-> path, kind |-> kind, body |-> body]

\* save_html_fallback(html_content, filename_prefix, error_type): the location
\* written, or None when anything fails.
SaveHtmlFallback(prefix, error_type, diskOK) ==
    LET filename == <<HTML_DIR>> \o Affix(<<>>, prefix, <<"_", error_type, ".html">>)
    IN IF CanOpen(filename, diskOK)
       THEN [ret |-> filename, writes |-> <<Artifact(filename, "markup", EmptyDict)>>]
       ELSE [ret |-> NoPath, writes |-> <<>>]

\* save_error_log(search_term, error_message, page_source): error_data is
\* dumped before html_fallback_file is added to it.
SaveErrorLog(term, hasSource, errOK, htmlOK) ==
    LET error_json_file == <<ERR_DIR, <<"error_", term, ".json">>>>
        error_data == [search_term |-> Str(term), error_type |-> Str("crawling_error")]
        html == SaveHtmlFallback(<< <<"error_", term>> >>, "page_capture", htmlOK)
    IN IF ~CanOpen(error_json_file, errOK)
       THEN [ret |-> NoPath, writes |-> <<>>]
       ELSE [ret |-> error_json_file,
             writes |-> <<Artifact(error_json_file, "structured", error_data)>>
                        \o (IF hasSource THEN html.writes ELSE <<>>)]

\* safe_extract_json_data(business_data, search_term).  raised: the
\* page.content() of the except branch raised.
SafeExtractJsonData(business_data, term, contentOK, htmlOK) ==
    LET tagged == Put(Put(Put(business_data, "search_term", Str(term)),
                          "extracted_at", NOW), "status", SUCCESS)
        html == SaveHtmlFallback(<< <<"json_fail_", term>> >>, "serialization_error", htmlOK)
        error_data == [search_term |-> Str(term),
                       status |-> Str("error"),
                       error_type |-> Str("json_serialization_failed"),
                       scraped_at |-> NOW,
                       html_fallback_file |-> html.ret,
                       partial_business_data |-> Str("preview")]
    IN IF DumpsOK(tagged)
       THEN [raised |-> FALSE, data |-> tagged, html |-> NoPath, writes |-> <<>>]
       ELSE IF ~contentOK
       THEN [raised |-> TRUE, data |-> EmptyDict, html |-> NoPath, writes |-> <<>>]
       ELSE [raised |-> FALSE, data |-> error_data, html |-> html.ret, writes |-> html.writes]

\* save_data_with_fallback(data, filename).  env: open (the destination can
\* be written), content (page.content() returns), html and err (the two
\* fallback files can be written).  Only TypeError and ValueError are caught.
SaveDataWithFallback(data, filename, env) ==
    LET filepath == filename
        stem == StripJson(filename)
        html == SaveHtmlFallback(Affix(<<"save_fail_">>, stem, <<>>), "save_error", env.html)
        error_file == <<ERR_DIR>> \o Affix(<<"save_error_">>, stem, <<".json">>)
        error_data == [filename |-> Str("filename"), timestamp |-> NOW,
                       html_fallback_file |-> html.ret]
        cut == <<Artifact(filepath, "partial", EmptyDict)>>
        fallback ==
            IF ~env.content
            THEN [raised |-> TRUE, ret |-> NoPath, writes |-> cut]
            ELSE IF ~CanOpen(error_file, env.err)
            THEN [raised |-> TRUE, ret |-> NoPath, writes |-> cut \o html.writes]
            ELSE [raised |-> FALSE, ret |-> html.ret,
                  writes |-> cut \o html.writes
                             \o <<Artifact(error_file, "structured", error_data)>>]
    IN IF ~CanOpen(filepath, env.open)
       THEN [raised |-> TRUE, ret |-> NoPath, writes |-> <<>>]
       ELSE IF Has(data, "html_content")
       THEN IF Encodable(data["html_content"])
            THEN [raised |-> FALSE, ret |-> filepath,
                  writes |-> <<Artifact(filepath, "markup", EmptyDict)>>]
            ELSE fallback
       ELSE IF FileDumpOK(data)
       THEN [raised |-> FALSE, ret |-> filepath,
             writes |-> <<Artifact(filepath, "structured", data)>>]
       ELSE fallback

\* ------------------------------------------------------------ FieldExtractor
\* str.strip() and str.lower() on token text
RECURSIVE LStrip(_)
LStrip(t) == IF t # <<>> /\ Head(t) = " " THEN LStrip(Tail(t)) ELSE t
RECURSIVE RStrip(_)
RStrip(t) == IF t # <<>> /\ t[Len(t)] = " " THEN RStrip(SubSeq(t, 1, Len(t) - 1)) ELSE t
Strip(t) == RStrip(LStrip(t))
LowerTok(c) ==
    CASE c = "Business" -> "business" [] c = "Entity" -> "entity"
      [] c = "ID" -> "id" [] c = "Id" -> "id" [] c = "Name" -> "name"
      [] c = "Type" -> "type" [] c = "Status" -> "status"
      [] c = "Formation" -> "formation" [] c = "Date" -> "date"
      [] c = "Jurisdiction" -> "jurisdiction" [] c = "Resident" -> "resident"
      [] c = "Agent" -> "agent" [] c = "Last" -> "last" [] c = "Next" -> "next"
      [] c = "Report" -> "report" [] c = "Forfeiture" -> "forfeiture"
      [] c = "A" -> "a" [] c = "L" -> "l"
      [] OTHER -> c
Lower(t) == [i \in DOMAIN t |-> LowerTok(t[i])]
\* `term in label_lower`: term occurs as a run of consecutive tokens
Contains(text, term) ==
    \E o \in 0..Len(text) :
        /\ o + Len(term) <= Len(text)
        /\ \A i \in DOMAIN term : text[o + i] = term[i]

\* A detail page as the PageDriver shows it:
\*   ids    selector -> text_content() of the element (no key: no such element)
\*   rows   every tr of every table in document order, each a sequence of
\*          cell texts
\*   text   field -> what each of the field's patterns finds in the markup,
\*          in pattern order: {} (no match) or {group 1}
\*   markup page.content()
\* get_element_text(selector); failing: the selectors whose query or read raises
GetElementText(page, selector, failing) ==
    IF selector \in failing \/ ~Has(page.ids, selector) THEN Empty
    ELSE Strip(page.ids[selector])

\* f"{city}, {state} {zip_code}".strip(" ,")
RECURSIVE StripSet(_, _)
StripSet(t, cs) ==
    IF t # <<>> /\ Head(t) \in cs THEN StripSet(Tail(t), cs)
    ELSE IF t # <<>> /\ t[Len(t)] \in cs THEN StripSet(SubSeq(t, 1, Len(t) - 1), cs)
    ELSE t
\* extract_office_address(office_type)
ExtractOfficeAddress(page, office_type, failing) ==
    LET po == office_type = "principal"
        address1 == GetElementText(page, IF po THEN "POAddress" ELSE "ROAddress", failing)
        city == GetElementText(page, IF po THEN "POAddressCity" ELSE "ROAddressCity", failing)
        state == GetElementText(page, IF po THEN "POAddressState" ELSE "ROAddressState", failing)
        zip_code == GetElementText(page, IF po THEN "POAddressZip" ELSE "ROAddressZip", failing)
        location == StripSet(city \o <<",", " ">> \o state \o <<" ">> \o zip_code, {" ", ","})
        part1 == IF Truthy(address1) THEN <<address1>> ELSE <<>>
        part2 == IF (Truthy(city) \/ Truthy(state) \/ Truthy(zip_code)) /\ Truthy(location)
                 THEN <<location>> ELSE <<>>
        parts == part1 \o part2
    IN IF Len(parts) = 2 THEN parts[1] \o <<" ", "|", " ">> \o parts[2]
       ELSE IF Len(parts) = 1 THEN parts[1] ELSE Empty

\* extract_by_element_ids(): every key is set, to "" when the lookup fails
ExtractByElementIds(page, failing) ==
    [business_id |-> GetElementText(page, "EntityID", failing),
     business_name |-> GetElementText(page, "EntityName", failing),
     type |-> GetElementText(page, "EntityType", failing),
     formation_date |-> GetElementText(page, "FormationDate", failing),
     jurisdiction |-> GetElementText(page, "StateOfOrganization", failing),
     status |-> GetElementText(page, "EntityStatus", failing),
     resident_agent |-> GetElementText(page, "ResidentAgentName", failing),
     last_reporting_year |-> GetElementText(page, "LastIROnFile", failing),
     next_report_due_date |-> GetElementText(page, "NextIRDue", failing),
     forfeiture_date |-> GetElementText(page, "ForfeitureDate", failing),
     principal_office_address |-> ExtractOfficeAddress(page, "principal", failing),
     registered_office_address |-> ExtractOfficeAddress(page, "registered", failing)]

\* The if/elif chain of extract_from_tables, in its order
LabelChain ==
    << [field |-> "business_id", terms |-> {<<"business", " ", "id">>, <<"entity", " ", "id">>}],
       [field |-> "business_name", terms |-> {<<"business", " ", "name">>, <<"entity", " ", "name">>}],
       [field |-> "type", terms |-> {<<"entity", " ", "type">>, <<"type">>}],
       [field |-> "formation_date", terms |-> {<<"formation", " ", "date">>}],
       [field |-> "jurisdiction", terms |-> {<<"jurisdiction">>}],
       [field |-> "status", terms |-> {<<"status">>}],
       [field |-> "resident_agent", terms |-> {<<"resident", " ", "agent">>}],
       [field |-> "last_reporting_year", terms |-> {<<"last", " ", "report">>}],
       [field |-> "next_report_due_date", terms |-> {<<"next", " ", "report">>}],
       [field |-> "forfeiture_date", terms |-> {<<"forfeiture">>}] >>
Matching(label_lower) ==
    {i \in DOMAIN LabelChain : \E term \in LabelChain[i].terms : Contains(label_lower, term)}
\* the first branch of the chain that takes the label; "" when none does
LabelField(label_lower) ==
    LET m == Matching(label_lower)
    IN IF m = {} THEN ""
       ELSE LabelChain[CHOOSE i \in m : \A j \in m : i <= j].field
\* Variant of TableRow that leaves a field alone once it is set.
TableRowKeepFirst(table_data, cells) ==
    IF Len(cells) >= 2
    THEN LET label == Strip(cells[1])
             value == Strip(cells[2])
             field == LabelField(Lower(label))
         IN IF Truthy(label) /\ Truthy(value) /\ field # "" /\ ~Has(table_data, field)
            THEN Put(table_data, field, value)
            ELSE table_data
    ELSE table_data

\* Variant of TableRow that wants a third cell in the row.
TableRowThreeCells(table_data, cells) ==
    IF Len(cells) >= 3
    THEN LET label == Strip(cells[1])
             value == Strip(cells[2])
             field == LabelField(Lower(label))
         IN IF Truthy(label) /\ Truthy(value) /\ field # ""
            THEN Put(table_data, field, value)
            ELSE table_data
    ELSE table_data

\* the loop body of extract_from_tables for one row
TableRow(table_data, cells) ==
    IF Len(cells) >= 2
    THEN LET label == Strip(cells[1])
             value == Strip(cells[2])
             field == LabelField(Lower(label))
         IN IF Truthy(label) /\ Truthy(value) /\ field # ""
            THEN Put(table_data, field, value)
            ELSE table_data
    ELSE table_data
RECURSIVE TableScan(_, _)
TableScan(rows, n) ==
    IF n = 0 THEN EmptyDict ELSE TableRow(TableScan(rows, n - 1), rows[n])
\* extract_from_tables(); scanned: the rows handled before a query or read
\* raised ("all" when none did); what was set until then is returned
ExtractFromTables(page, scanned) ==
    TableScan(page.rows, CASE scanned = "none" -> 0
                           [] scanned = "one" -> Min(1, Len(page.rows))
                           [] OTHER -> Len(page.rows))

\* the first pattern of a field that matches gives group(1).strip()
FirstMatch(found) ==
    LET hits == {i \in DOMAIN found : found[i] # {}}
    IN IF hits = {} THEN {}
       ELSE LET first == CHOOSE i \in hits : \A j \in hits : i <= j
            IN {Strip(CHOOSE m \in found[first] : TRUE)}
\* extract_from_page_text(); contentOK: page.content() returned
ExtractFromPageText(page, contentOK) ==
    IF ~contentOK THEN EmptyDict
    ELSE LET fields == {f \in DOMAIN page.text : FirstMatch(page.text[f]) # {}}
         IN [f \in fields |-> CHOOSE m \in FirstMatch(page.text[f]) : TRUE]

\* Variant of RunTiers without the first `if not business_data.get(...)`:
\* the table tier runs whatever the first tier gave.
RunTiersUnguarded(page, failing, scanned, textOK) ==
    LET t1 == ExtractByElementIds(page, failing)
        t2 == ExtractFromTables(page, scanned)
        run3 == ~Truthy(Get(t2, "business_name"))
        business_data == IF run3 THEN ExtractFromPageText(page, textOK) ELSE t2
        tiers == <<1, 2>> \o (IF run3 THEN <<3>> ELSE <<>>)
    IN [business_data |-> business_data,
        markup |-> page.markup,
        trace |-> [tiers |-> tiers,
                   name1 |-> Get(t1, "business_name"),
                   name2 |-> Get(t2, "business_name"),
                   pair |-> Truthy(Get(business_data, "business_name"))
                            /\ Truthy(Get(business_data, "business_id"))]]

\* extract_business_details_robust(search_term), its three tiers: each
\* later tier runs only when business_name is still empty.
\*   failing  selectors whose lookup raises in tier 1
\*   scanned  rows tier 2 handles before a raise
\*   textOK   tier 3's page.content() returns
\* tiers: the tiers invoked, in order; name1, name2: the business_name the
\* first and the second tier gave; pair: the mapping the tiers end with has
\* both a business_name and a business_id.
RunTiers(page, failing, scanned, textOK) ==
    LET t1 == ExtractByElementIds(page, failing)
        run2 == ~Truthy(Get(t1, "business_name"))
        t2 == IF run2 THEN ExtractFromTables(page, scanned) ELSE t1
        run3 == ~Truthy(Get(t2, "business_name"))
        business_data == IF run3 THEN ExtractFromPageText(page, textOK) ELSE t2
        tiers == <<1>> \o (IF run2 THEN <<2>> ELSE <<>>) \o (IF run3 THEN <<3>> ELSE <<>>)
    IN [business_data |-> business_data,
        markup |-> page.markup,
        trace |-> [tiers |-> tiers,
                   name1 |-> Get(t1, "business_name"),
                   name2 |-> IF run2 THEN Get(t2, "business_name") ELSE Empty,
                   pair |-> Truthy(Get(business_data, "business_name"))
                            /\ Truthy(Get(business_data, "business_id"))]]

\* extract_business_details_robust(search_term) from the essential-data
\* check on.  io:
\*   c1, c2   the first and the second page.content() of the method itself
\*            (or of the validator it calls) return
\*   errOK, htmlOK   the error log's two files can be written
Validate(tiered, term, io) ==
    LET business_data == tiered.business_data
        essential == Truthy(Get(business_data, "business_name"))
                     /\ Truthy(Get(business_data, "business_id"))
        missing == [html_content |-> tiered.markup,
                    error |-> Str("Essential data missing"),
                    timestamp |-> NOW,
                    search_term |-> Str(term),
                    status |-> Str("data_extraction_failed")]
        safe == SafeExtractJsonData(IF essential THEN business_data ELSE missing,
                                    term, io.c1, io.htmlOK)
        log == SaveErrorLog(term, TRUE, io.errOK, io.htmlOK)
        error_data == [error |-> Str("exception"),
                       timestamp |-> NOW,
                       search_term |-> Str(term),
                       status |-> Str("extraction_error")]
        \* the try block raised: page.content() at the essential-data check,
        \* or inside the validator's except branch
        tryRaised == (~essential /\ ~io.c1) \/ safe.raised
    IN IF ~tryRaised
       THEN [raised |-> FALSE, data |-> safe.data, writes |-> safe.writes,
             trace |-> tiered.trace]
       ELSE IF ~io.c2
       THEN [raised |-> TRUE, data |-> EmptyDict, writes |-> <<>>, trace |-> tiered.trace]
       ELSE [raised |-> FALSE, data |-> error_data, writes |-> log.writes,
             trace |-> tiered.trace]

ExtractBusinessDetailsRobust(page, term, env) ==
    Validate(RunTiers(page, env.failing, env.scanned, env.textOK), term, env)

\* ------------------------------------------------------------ inputs
\* Detail pages the registry can show.  "A&L" is a name with a non-word
\* character; the last ids has an element whose text is only blanks.
Name1 == <<"A", "&", "L">>
IdsChoices ==
    { EmptyDict,
      [EntityID |-> <<"1">>, EntityName |-> Name1, EntityType |-> <<"L">>,
       EntityStatus |-> <<"a">>, POAddress |-> <<"1">>, POAddressCity |-> <<"a">>],
      [EntityID |-> <<"1">>],
      [EntityID |-> <<"1">>, EntityName |-> <<"A", SUR>>],
      [EntityID |-> <<"1">>, EntityName |-> <<" ">>] }
LabelName == <<"Entity", " ", "Name">>
LabelId == <<"Entity", " ", "ID">>
RowsChoices ==
    { <<>>,
      << <<LabelName, Name1>>, <<LabelId, <<"1">>>> >>,
      << <<LabelId, <<"1">>>>, << <<"Status">>, <<"a">> >> >>,
      << <<LabelName>>, <<LabelName, <<"L">>>>, <<LabelName, Name1>> >> }
TextChoices ==
    { EmptyDict,
      [business_name |-> << {}, {Name1 \o <<" ">>} >>, business_id |-> << {<<"1">>}, {<<"a">>} >>],
      [business_name |-> << {Name1}, {} >>],
      [business_id |-> << {}, {<<"1">>} >>, status |-> << {<<"a">>} >>] }
DetailPages ==
    { [ids |-> i, rows |-> r, text |-> t, markup |-> Markup] :
        i \in IdsChoices, r \in RowsChoices, t \in TextChoices }
Selectors ==
    {"EntityID", "EntityName", "EntityType", "FormationDate", "StateOfOrganization",
     "EntityStatus", "ResidentAgentName", "LastIROnFile", "NextIRDue", "ForfeitureDate",
     "POAddress", "POAddressCity", "POAddressState", "POAddressZip",
     "ROAddress", "ROAddressCity", "ROAddressState", "ROAddressZip"}
\* What the environment does during one extraction
TierEnvs ==
    [failing : {{}, {"EntityName"}, Selectors},
     scanned : {"none", "one", "all"},
     textOK : BOOLEAN]
FetchEnvs == [c1 : BOOLEAN, c2 : BOOLEAN, errOK : BOOLEAN, htmlOK : BOOLEAN]
\* What the environment does during one persist
SaveEnvs == [open : BOOLEAN, content : BOOLEAN, html : BOOLEAN, err : BOOLEAN]

RECURSIVE SortedSeq(_)
SortedSeq(S) ==
    IF S = {} THEN <<>>
    ELSE LET m == CHOOSE x \in S : \A y \in S : x <= y
         IN <<m>> \o SortedSeq(S \ {m})

\* Everything the tiers can give, and everything one extraction can return
\* for a term: ExtractBusinessDetailsRobust over DetailPages and the
\* environment's choices
TierOutcomes ==
    { RunTiers(p, e.failing, e.scanned, e.textOK) : p \in DetailPages, e \in TierEnvs }
ExtractOutcomes ==
    [t \in 1..NumTerms |->
      { Validate(x, search_terms[t], io) : x \in TierOutcomes, io \in FetchEnvs }]

\* ------------------------------------------------------------ state
VARIABLES
    pc,          \* where the coordinator (or main) stands
    ret, exc,    \* where a challenge check continues: on return, on raise
    gate,        \* ChallengeGate: "Clear" or "AwaitingClearance"
    termIdx,     \* position of search_term in search_terms (0: loop not begun)
    businesses,  \* row_index of each entry of businesses
    rowPtr,      \* i + 1 of the row loop (0: no row in hand)
    details,     \* what extract_business_details_robust returned for the row
    saved_file,  \* what save_data_with_fallback returned for the row
    all_business_data,
    total_companies_collected,
    sessionOpen, \* the browser session has not been torn down
    closeCount,  \* how many times close() ran
    outcome,     \* how run_fully_automated_crawler ended
    raisedIn,    \* the method an exception left, when one reached main
    termsTaken,  \* history: the terms whose SetupQuery was entered, in order
    written,     \* history: the files written for the row (or term stage) in hand
    termWrote,   \* history: some file was written since the term was taken up
    trace,       \* history: the tiers the row's extraction ran
    listed,      \* history: how the term's result list resolved ("": not yet)
    sample,      \* the input of a run of one operation alone (<<>> in a crawl)
    view,        \* the page the browser shows
    rowQuery,    \* history: what the row's query of the live results table came to
    primaryFailed,  \* history: the except branch of the homepage-first chain was entered
    fallbackFailed  \* history: the except branch of the direct fallback returned False

vars == <<pc, ret, exc, gate, termIdx, businesses, rowPtr, details, saved_file,
          all_business_data, total_companies_collected, sessionOpen, closeCount,
          outcome, raisedIn, termsTaken, written, termWrote, trace, listed,
          sample, view, rowQuery, primaryFailed, fallbackFailed>>

gateVars == <<ret, exc, gate>>
loopVars == <<termIdx, businesses, rowPtr, listed>>
rowVars == <<details, saved_file, trace>>
sumVars == <<all_business_data, total_companies_collected>>
mainVars == <<sessionOpen, closeCount>>
bootVars == <<primaryFailed, fallbackFailed>>
fileVars == <<written, termWrote>>
pageVars == <<view, rowQuery>>

NoTrace == [tiers |-> <<>>, name1 |-> Empty, name2 |-> Empty, pair |-> FALSE]

\* every variable but pc and sample, as the constructor leaves it
Blank ==
    /\ ret = "" /\ exc = "" /\ gate = "Clear"
    /\ termIdx = 0 /\ businesses = <<>> /\ rowPtr = 0
    /\ details = EmptyDict /\ saved_file = NoPath
    /\ all_business_data = <<>> /\ total_companies_collected = 0
    /\ sessionOpen = TRUE /\ closeCount = 0
    /\ outcome = "running" /\ raisedIn = ""
    /\ termsTaken = <<>> /\ written = <<>> /\ termWrote = FALSE
    /\ trace = NoTrace /\ listed = ""
    /\ view = "blank" /\ rowQuery = ""
    /\ primaryFailed = FALSE /\ fallbackFailed = FALSE

NoSample == <<>>
Init == pc = "HomeNav" /\ sample = NoSample /\ Blank

search_term == search_terms[termIdx]

\* ------------------------------------------------------------ control helpers
runVars == <<loopVars, rowVars, sumVars, fileVars>>
Goto(l) == pc' = l /\ UNCHANGED <<outcome, raisedIn>>
\* check_and_solve_captcha() is called; then on to `r`, or to `x` if it raises
Call(r, x) == pc' = "Check" /\ ret' = r /\ exc' = x /\ UNCHANGED <<gate, outcome, raisedIn>>
\* run is left (a return, or an exception or interrupt passing through):
\* its locals are gone, and no term or row is in hand any more
LeaveRun ==
    /\ termIdx' = 0 /\ businesses' = <<>> /\ rowPtr' = 0 /\ listed' = ""
    /\ details' = EmptyDict /\ saved_file' = NoPath
    /\ all_business_data' = <<>> /\ total_companies_collected' = 0
    /\ written' = <<>> /\ termWrote' = FALSE /\ trace' = NoTrace
    /\ ret' = "" /\ exc' = "" /\ gate' = "Clear"
    /\ rowQuery' = "" /\ UNCHANGED view
\* the page shown is now `v`: "home", "search" (the search page as loaded),
\* "form" (the search page a term's setup has worked on), "results" (what
\* the submit or a return step loaded), "detail" (what a row's selection
\* control loaded), "unknown" (a navigation failed)
Show(v) == view' = v /\ UNCHANGED rowQuery
Stay == UNCHANGED pageVars
\* the page shown once a term's setup has queried it
Touched == IF view = "search" THEN "form" ELSE view
\* an exception leaves `method` and nothing up to main catches it
Raise(method) ==
    /\ pc' = "Finally" /\ outcome' = "exception" /\ raisedIn' = method
    /\ LeaveRun
Wrote(files) == written' = written \o files /\ termWrote' = (termWrote \/ files # <<>>)
\* Variant of Visited without the [:3] slice.
VisitedAll == Len(businesses)
\* the rows the row loop visits: businesses[:3]
Visited == Min(RowLimit, Len(businesses))
\* The row in hand is left: its locals are dead (each is assigned again
\* before it is read) and its files are no longer the row's.
LeaveRow(files) ==
    /\ details' = EmptyDict /\ saved_file' = NoPath /\ trace' = NoTrace
    /\ written' = <<>> /\ termWrote' = (termWrote \/ files # <<>>)
\* the row loop's next iteration (no return to the list is made here)
NextRow(files) ==
    /\ LeaveRow(files)
    /\ UNCHANGED <<termIdx, businesses, listed, sumVars, gateVars>>
    /\ IF rowPtr < Visited
       THEN rowPtr' = rowPtr + 1 /\ Goto("DetailNav")
       ELSE rowPtr' = 0 /\ Goto("NextTerm")
\* `continue`, or the end of the loop body: back to the for statement
Continue(files) ==
    /\ Goto("ForTerm") /\ Wrote(files)
    /\ UNCHANGED <<loopVars, rowVars, sumVars, gateVars>>

\* ------------------------------------------------------------ ChallengeGate
\* check_and_solve_captcha() up to input(): the indicator probes
Check ==
    /\ pc = "Check"
    /\ \E probe \in {"none", "found", "raise"} :
         CASE probe = "none" -> Goto(ret) /\ gate' = gate /\ ret' = "" /\ exc' = ""
           [] probe = "found" -> Goto("AwaitClear") /\ gate' = "AwaitingClearance"
                                 /\ UNCHANGED <<ret, exc>>
           [] probe = "raise" -> Goto(exc) /\ gate' = gate /\ ret' = "" /\ exc' = ""
    /\ UNCHANGED <<runVars, mainVars, termsTaken, sample, pageVars, bootVars>>

\* input() returns when the operator presses Enter (or raises EOFError)
AwaitClear ==
    /\ pc = "AwaitClear"
    /\ gate' = "Clear"
    /\ \E answered \in BOOLEAN : Goto(IF answered THEN ret ELSE exc)
    /\ ret' = "" /\ exc' = ""
    /\ UNCHANGED <<runVars, mainVars, termsTaken, sample, pageVars, bootVars>>

\* ------------------------------------------------------------ bootstrap
\* navigate_to_homepage_first(): goto(homepage)
HomeNav ==
    /\ pc = "HomeNav"
    /\ \E ok \in BOOLEAN :
         /\ Goto(IF ok THEN "HomeTitle" ELSE "FallbackNav")
         /\ Show(IF ok THEN "home" ELSE "unknown")
    /\ UNCHANGED <<gateVars, runVars, mainVars, termsTaken, sample, bootVars>>

\* the homepage's title() is read for the progress line, and then the
\* challenge check is called
HomeTitle ==
    /\ pc = "HomeTitle"
    /\ \E ok \in BOOLEAN :
         IF ok THEN Call("SearchNav", "FallbackNav")
         ELSE Goto("FallbackNav") /\ UNCHANGED gateVars
    /\ UNCHANGED <<runVars, mainVars, termsTaken, sample, pageVars, bootVars>>

\* Variant of SearchNav that goes on without the challenge check.
SearchNavUnchecked ==
    /\ pc = "SearchNav"
    /\ \E ok \in BOOLEAN :
         /\ Goto(IF ok THEN "BootDone" ELSE "FallbackNav")
         /\ Show(IF ok THEN "search" ELSE "unknown")
    /\ UNCHANGED <<gateVars, runVars, mainVars, termsTaken, sample, bootVars>>

\* goto(search_url) of the try block
SearchNav ==
    /\ pc = "SearchNav"
    /\ \E ok \in BOOLEAN :
         IF ok THEN Call("BootDone", "FallbackNav") /\ Show("search")
         ELSE Goto("FallbackNav") /\ UNCHANGED gateVars /\ Show("unknown")
    /\ UNCHANGED <<runVars, mainVars, termsTaken, sample, bootVars>>

\* Variant of BootDone whose failure gives up at once, the direct route
\* to the search page never tried.
BootDoneNoFallback ==
    /\ pc = "BootDone"
    /\ \E ok \in BOOLEAN : Goto(IF ok THEN "ForTerm" ELSE "Abort")
    /\ UNCHANGED <<gateVars, runVars, mainVars, termsTaken, sample, pageVars, bootVars>>

\* the try block's last title() and return True
BootDone ==
    /\ pc = "BootDone"
    /\ \E ok \in BOOLEAN : Goto(IF ok THEN "ForTerm" ELSE "FallbackNav")
    /\ UNCHANGED <<gateVars, runVars, mainVars, termsTaken, sample, pageVars, bootVars>>

\* the except branch: direct navigation to the search page
FallbackNav ==
    /\ pc = "FallbackNav"
    /\ primaryFailed' = TRUE
    /\ \E ok \in BOOLEAN :
         IF ok THEN Call("ForTerm", "Abort") /\ Show("search")
         ELSE Goto("Abort") /\ UNCHANGED gateVars /\ Show("unknown")
    /\ UNCHANGED <<runVars, mainVars, termsTaken, sample, fallbackFailed>>

\* the fallback raised: return False, and run returns before any term
Abort ==
    /\ pc = "Abort"
    /\ fallbackFailed' = TRUE
    /\ pc' = "Finally" /\ outcome' = "aborted" /\ UNCHANGED raisedIn
    /\ LeaveRun
    /\ UNCHANGED <<mainVars, termsTaken, sample, primaryFailed>>

\* ------------------------------------------------------------ the term loop
\* for search_term in search_terms
ForTerm ==
    /\ pc = "ForTerm"
    /\ IF termIdx < NumTerms
       THEN /\ termIdx' = termIdx + 1
            /\ termsTaken' = Append(termsTaken, termIdx + 1)
            /\ Goto("SetupQuery")
       ELSE /\ UNCHANGED <<termIdx, termsTaken>>
            /\ Goto("Combine")
    /\ businesses' = <<>> /\ rowPtr' = 0 /\ listed' = ""
    /\ written' = <<>> /\ termWrote' = FALSE
    /\ UNCHANGED <<gateVars, rowVars, sumVars, mainVars, sample, pageVars, bootVars>>

\* automated_search_setup(search_term) and what run does with a False
\*   setup   the input was filled / was not found / a query, click or fill raised
\*   c1..c3  page.content() returns: in the try block, in the except branch,
\*           and at run's own save_error_log
SetupQuery ==
    /\ pc = "SetupQuery"
    /\ \E setup \in {"ok", "no_input", "raise"} :
         IF setup = "ok"
         THEN Call("Submit", "SubmitFail") /\ UNCHANGED runVars /\ Show(Touched)
         ELSE \E c1, c2, c3, e1, h1, e2, h2 \in BOOLEAN :
                LET inner == SaveErrorLog(search_term, TRUE, e1, h1)
                    outer == SaveErrorLog(search_term, TRUE, e2, h2)
                    handled == setup = "no_input" /\ c1
                IN IF ~handled /\ ~c2
                   THEN Raise("automated_search_setup")
                   ELSE IF ~c3
                   THEN Raise("run_fully_automated_crawler")
                   ELSE Continue(inner.writes \o outer.writes) /\ Show(Touched)
    /\ UNCHANGED <<mainVars, termsTaken, sample, bootVars>>

\* perform_search(search_term) after its first challenge check
\*   btn   the search button was clicked / was not found / a query or click raised
Submit ==
    /\ pc = "Submit"
    /\ \E btn \in {"clicked", "none", "raise"} :
         IF btn = "clicked"
         THEN Call("ResultList", "SubmitFail") /\ UNCHANGED runVars /\ Show("results")
         ELSE \E c1, e1, h1 \in BOOLEAN :
                LET log == SaveErrorLog(search_term, TRUE, e1, h1)
                IN IF btn = "none" /\ c1
                   THEN Continue(log.writes) /\ Stay
                   ELSE Goto("SubmitFail") /\ UNCHANGED <<gateVars, runVars>> /\ Stay
    /\ UNCHANGED <<mainVars, termsTaken, sample, bootVars>>

\* the except branch of perform_search
SubmitFail ==
    /\ pc = "SubmitFail"
    /\ \E c1, e1, h1 \in BOOLEAN :
         LET log == SaveErrorLog(search_term, TRUE, e1, h1)
         IN IF c1 THEN Continue(log.writes) /\ Stay ELSE Raise("perform_search")
    /\ UNCHANGED <<mainVars, termsTaken, sample, bootVars>>

\* Variant of ListingWrites that logs an error for every listing.
ListingWritesAlways(scan, log) == log.writes

\* The usable rows a results table shows: a run of consecutive rows below
\* the header (rows[0]), beginning at rows[1] or, that row having no name or
\* too few cells, at rows[2].
ValidChoices == {a..b : a \in 1..2, b \in 0..MaxRows}

\* the files extract_business_links_from_results writes: the error log of its
\* except branch, and nothing when the table is missing or has no usable row
ListingWrites(scan, log) == IF scan = "raise" THEN log.writes ELSE <<>>

\* extract_business_links_from_results(search_term) and run's branch on an
\* empty list
\*   scan    the table query raised / found no table / found the table
\*   valid   the indexes (in rows, whose [0] is skipped) of the rows with
\*           three cells and a name, one of ValidChoices
\*   nav     the goto back to the search page returned
ResultList ==
    /\ pc = "ResultList"
    /\ \E scan \in {"raise", "no_table", "table"} :
         \E valid \in (IF scan = "table" THEN ValidChoices ELSE {{}}),
            c1, e1, h1 \in (IF scan = "raise" THEN BOOLEAN ELSE {TRUE}),
            nav \in BOOLEAN :
           LET log == SaveErrorLog(search_term, TRUE, e1, h1)
               found == SortedSeq(valid)
           IN IF scan = "raise" /\ ~c1
              THEN Raise("extract_business_links_from_results")
              ELSE /\ Wrote(ListingWrites(scan, log))
                   /\ businesses' = found /\ listed' = scan
                   /\ UNCHANGED <<termIdx, rowVars, sumVars>>
                   /\ IF found = <<>>
                      THEN /\ rowPtr' = 0
                           /\ IF nav THEN Call("ForTerm", "ForTerm") /\ Show("search")
                              ELSE Goto("ForTerm") /\ UNCHANGED gateVars /\ Show("unknown")
                      ELSE /\ rowPtr' = 1
                           /\ Goto("DetailNav") /\ UNCHANGED gateVars /\ Stay
    /\ UNCHANGED <<mainVars, termsTaken, sample, bootVars>>

\* ------------------------------------------------------------ the row loop
\* Variant of DetailNav that clicks a row handle kept from the time the list
\* was resolved, the live table not queried.
DetailNavStoredHandle ==
    /\ pc = "DetailNav"
    /\ rowQuery' = "stored" /\ view' = "detail"
    /\ Call("DetailVerify", "ClickFail") /\ UNCHANGED runVars
    /\ UNCHANGED <<mainVars, termsTaken, sample, bootVars>>

\* click_business_by_index(business, search_term) up to its challenge check
\*   live   what the live page has for businesses[i]['row_index']: no table,
\*          too few rows, no button, a button that was clicked, or a raise;
\*          the table, its rows and the button are queried here, on the
\*          page shown, and only a button found so is clicked
DetailNav ==
    /\ pc = "DetailNav"
    /\ \E live \in {"no_table", "short", "no_button", "clicked", "raise"} :
         /\ rowQuery' = live
         /\ CASE live = "clicked" ->
                Call("DetailVerify", "ClickFail") /\ UNCHANGED runVars /\ view' = "detail"
           [] live \in {"no_table", "short"} ->
                NextRow(<<>>) /\ UNCHANGED view
           [] live = "no_button" ->
                \E c1, e1, h1 \in BOOLEAN :
                  /\ UNCHANGED view
                  /\ IF c1 THEN NextRow(SaveErrorLog(search_term, TRUE, e1, h1).writes)
                     ELSE Goto("ClickFail") /\ UNCHANGED <<gateVars, runVars>>
           [] live = "raise" ->
                Goto("ClickFail") /\ UNCHANGED <<gateVars, runVars, view>>
    /\ UNCHANGED <<mainVars, termsTaken, sample, bootVars>>

\* the probe for the detail-page marker
DetailVerify ==
    /\ pc = "DetailVerify"
    /\ \E marker \in {"found", "missing", "raise"} :
         CASE marker = "found" ->
                Goto("Extract") /\ UNCHANGED <<gateVars, runVars>>
           [] marker = "missing" ->
                \E c1, e1, h1 \in BOOLEAN :
                  IF c1 THEN NextRow(SaveErrorLog(search_term, TRUE, e1, h1).writes)
                  ELSE Goto("ClickFail") /\ UNCHANGED <<gateVars, runVars>>
           [] marker = "raise" ->
                Goto("ClickFail") /\ UNCHANGED <<gateVars, runVars>>
    /\ UNCHANGED <<mainVars, termsTaken, sample, pageVars, bootVars>>

\* the except branch of click_business_by_index
ClickFail ==
    /\ pc = "ClickFail"
    /\ \E c1, e1, h1 \in BOOLEAN :
         IF c1 THEN NextRow(SaveErrorLog(search_term, TRUE, e1, h1).writes) /\ Stay
         ELSE Raise("click_business_by_index")
    /\ UNCHANGED <<mainVars, termsTaken, sample, bootVars>>

\* details = self.extract_business_details_robust(search_term)
Extract ==
    /\ pc = "Extract"
    /\ \E r \in ExtractOutcomes[termIdx] :
         IF r.raised
         THEN Raise("extract_business_details_robust")
         ELSE /\ Goto("Persist")
              /\ details' = r.data
              /\ trace' = r.trace
              /\ Wrote(r.writes)
              /\ UNCHANGED <<gateVars, loopVars, saved_file, sumVars, pageVars>>
    /\ UNCHANGED <<mainVars, termsTaken, sample, bootVars>>

\* Variant of CleanName without the [:30] slice.
CleanNameUncut(name) ==
    [i \in DOMAIN name |-> IF name[i] \in WordChars THEN name[i] ELSE "_"]

\* re.sub(r'[^\w]', '_', name)[:30]
CleanName(name) ==
    LET subbed == [i \in DOMAIN name |-> IF name[i] \in WordChars THEN name[i] ELSE "_"]
    IN SubSeq(subbed, 1, Min(NameLimit, Len(subbed)))
\* the file name run gives the row's record
RowFilename(d, term) ==
    IF Has(d, "business_name") /\ Truthy(d["business_name"])
    THEN <<JSON_DIR, <<"business_">> \o CleanName(d["business_name"]) \o <<".json">>>>
    ELSE <<JSON_DIR, <<"error_", term, "_", "HHMMSS", ".json">>>>
\* the entry all_business_data keeps of a record: the keys read afterwards
Entry(d) ==
    [status |-> Get(d, "status"),
     business_name |-> Get(d, "business_name"),
     business_id |-> Get(d, "business_id")]

\* the body of `if details and isinstance(details, dict)`, or its else
Persist ==
    /\ pc = "Persist"
    /\ IF details # EmptyDict
       THEN \E env \in SaveEnvs :
              LET saved == SaveDataWithFallback(details, RowFilename(details, search_term), env)
              IN IF saved.raised
                 THEN Raise("save_data_with_fallback")
                 ELSE /\ Goto("ReturnToList")
                      /\ Wrote(saved.writes)
                      /\ saved_file' = saved.ret
                      /\ IF Get(details, "status") = SUCCESS
                         THEN /\ all_business_data' = Append(all_business_data, Entry(details))
                              /\ total_companies_collected' = total_companies_collected + 1
                         ELSE UNCHANGED sumVars
                      /\ UNCHANGED <<gateVars, loopVars, details, trace, pageVars>>
       ELSE \E c1, e1, h1 \in BOOLEAN :
              IF c1
              THEN /\ Goto("ReturnToList")
                   /\ Wrote(SaveErrorLog(search_term, TRUE, e1, h1).writes)
                   /\ UNCHANGED <<gateVars, loopVars, rowVars, sumVars, pageVars>>
              ELSE Raise("run_fully_automated_crawler")
    /\ UNCHANGED <<mainVars, termsTaken, sample, bootVars>>

\* Variant of ReturnToList that takes the next row whatever the return
\* step reported.
ReturnToListIgnoringFailure ==
    /\ pc = "ReturnToList"
    /\ LeaveRow(written)
    /\ rowQuery' = ""
    /\ IF rowPtr < Visited
       THEN \E ok \in BOOLEAN :
              /\ rowPtr' = rowPtr + 1 /\ Goto("DetailNav")
              /\ view' = IF ok THEN "results" ELSE "unknown"
       ELSE rowPtr' = 0 /\ Goto("NextTerm") /\ UNCHANGED view
    /\ UNCHANGED <<termIdx, businesses, listed, gateVars, sumVars, mainVars, termsTaken, sample,
                   bootVars>>

\* `if i < len(businesses[:3]) - 1` and return_to_search_results(): the
\* return control or go_back(); a raise ends the row loop
ReturnToList ==
    /\ pc = "ReturnToList"
    /\ LeaveRow(written)
    /\ rowQuery' = ""
    /\ IF rowPtr < Visited
       THEN \E ok \in BOOLEAN :
              IF ok THEN rowPtr' = rowPtr + 1 /\ Goto("DetailNav") /\ view' = "results"
              ELSE rowPtr' = 0 /\ Goto("NextTerm") /\ view' = "unknown"
       ELSE rowPtr' = 0 /\ Goto("NextTerm") /\ UNCHANGED view
    /\ UNCHANGED <<termIdx, businesses, listed, gateVars, sumVars, mainVars, termsTaken, sample,
                   bootVars>>

\* Variant of NextTerm without the test for the last term.
NextTermAlways ==
    /\ pc = "NextTerm"
    /\ \E nav \in BOOLEAN :
         IF nav THEN Call("ForTerm", "ForTerm") /\ view' = "search"
         ELSE Goto("ForTerm") /\ UNCHANGED gateVars /\ view' = "unknown"
    /\ rowQuery' = ""
    /\ UNCHANGED <<runVars, mainVars, termsTaken, sample, bootVars>>

\* `if search_term != search_terms[-1]`: goto(search page) and its check
NextTerm ==
    /\ pc = "NextTerm"
    /\ IF search_term # search_terms[Len(search_terms)]
       THEN \E nav \in BOOLEAN :
              IF nav THEN Call("ForTerm", "ForTerm") /\ view' = "search"
              ELSE Goto("ForTerm") /\ UNCHANGED gateVars /\ view' = "unknown"
       ELSE Goto("ForTerm") /\ UNCHANGED gateVars /\ UNCHANGED view
    /\ rowQuery' = ""
    /\ UNCHANGED <<runVars, mainVars, termsTaken, sample, bootVars>>

\* ------------------------------------------------------------ completion
\* Variant of Close without the try/except: a failing teardown call raises.
CloseUnguarded(open, teardownOK) ==
    [raised |-> ~teardownOK, open |-> IF teardownOK THEN FALSE ELSE open]

\* close(): context, browser and playwright are closed inside try/except
\* Exception.  teardownOK: none of the three calls raised.
Close(open, teardownOK) ==
    [raised |-> FALSE, open |-> IF teardownOK THEN FALSE ELSE open]

CombinedFilename == << <<"all_businesses_", "now", ".json">> >>
\* Variant of CombinedData whose count is one too many.
CombinedDataMiscounted(companies) ==
    [total_companies |-> Len(companies) + 1,
     search_terms_used |-> search_terms,
     extraction_date |-> NOW,
     companies |-> companies]

\* combined_data
CombinedData(companies) ==
    [total_companies |-> Len(companies),
     search_terms_used |-> search_terms,
     extraction_date |-> NOW,
     companies |-> companies]
\* the end of run: the combined artifact (inside try/except Exception),
\* the final report, self.close()
Combine ==
    /\ pc = "Combine"
    /\ \E env \in (IF all_business_data # <<>> THEN SaveEnvs
                   ELSE {[open |-> TRUE, content |-> TRUE, html |-> TRUE, err |-> TRUE]}),
          teardownOK \in BOOLEAN :
         LET combined_data == CombinedData(all_business_data)
             saved == SaveDataWithFallback(combined_data, CombinedFilename, env)
             closing == Close(sessionOpen, teardownOK)
         IN /\ IF all_business_data # <<>>
               THEN Wrote(saved.writes)
               ELSE UNCHANGED fileVars
            /\ closeCount' = closeCount + 1
            /\ sessionOpen' = closing.open
            /\ pc' = "Finally"
            /\ IF closing.raised
               THEN outcome' = "exception" /\ raisedIn' = "close"
               ELSE outcome' = "done" /\ UNCHANGED raisedIn
    /\ UNCHANGED <<gateVars, loopVars, rowVars, sumVars, termsTaken, sample, pageVars, bootVars>>

\* main's except clauses and its finally: crawler.close()
Finally ==
    /\ pc = "Finally"
    /\ \E teardownOK \in BOOLEAN :
         LET closing == Close(sessionOpen, teardownOK)
         IN /\ closeCount' = closeCount + 1
            /\ sessionOpen' = closing.open
            /\ raisedIn' = IF closing.raised THEN "close" ELSE raisedIn
    /\ pc' = "Exit"
    /\ UNCHANGED <<gateVars, runVars, outcome, termsTaken, sample, pageVars, bootVars>>

\* the operator interrupts (KeyboardInterrupt) while run is under way
\* (an interrupt that arrives inside get_element_text is taken by its bare
\* except: the lookup gives "" and run goes on, which is Extract with that
\* selector failing)
Running == pc \notin {"Finally", "Exit"}
Interrupt ==
    /\ Running
    /\ pc' = "Finally" /\ outcome' = "interrupt" /\ UNCHANGED raisedIn
    /\ LeaveRun
    /\ UNCHANGED <<mainVars, termsTaken, sample, bootVars>>

Next ==
    \/ HomeNav \/ HomeTitle \/ SearchNav \/ BootDone \/ FallbackNav \/ Abort
    \/ Check \/ AwaitClear
    \/ ForTerm \/ SetupQuery \/ Submit \/ SubmitFail \/ ResultList
    \/ DetailNav \/ DetailVerify \/ ClickFail \/ Extract \/ Persist
    \/ ReturnToList \/ NextTerm \/ Combine
    \/ Finally \/ Interrupt

Spec == Init /\ [][Next]_vars

\* ------------------------------------------------------------ an attended run
\* The crawl with nobody interrupting it and an operator who answers every
\* clearance prompt: input() returns. Each step is a call that returns, so
\* the coordinator always takes its next step.
Answered == AwaitClear /\ pc' = ret
Crawl ==
    \/ HomeNav \/ HomeTitle \/ SearchNav \/ BootDone \/ FallbackNav \/ Abort
    \/ Check \/ Answered
    \/ ForTerm \/ SetupQuery \/ Submit \/ SubmitFail \/ ResultList
    \/ DetailNav \/ DetailVerify \/ ClickFail \/ Extract \/ Persist
    \/ ReturnToList \/ NextTerm \/ Combine
    \/ Finally
AttendedSpec == Init /\ [][Crawl]_vars /\ WF_vars(Crawl)

\* ------------------------------------------------------------ one operation alone
\* A run of a single operation on an input drawn at the start: the input is
\* in `sample`, the operation's result goes to details, saved_file and
\* written.
AllOK == [open |-> TRUE, content |-> TRUE, html |-> TRUE, err |-> TRUE]
UnitTerm == search_terms[1]
unitRest == <<ret, exc, gate, termIdx, businesses, rowPtr, all_business_data,
              total_companies_collected, sessionOpen, closeCount, outcome, raisedIn,
              termsTaken, termWrote, trace, listed, sample, view, rowQuery, primaryFailed,
              fallbackFailed>>

\* The record extract_business_details_robust returns for a detail page
\* whose direct locators give this name and this id
Record(name, id) ==
    SafeExtractJsonData([business_id |-> id, business_name |-> name],
                        UnitTerm, TRUE, TRUE).data
\* Two rows of one result list, as two businesses
PairNames == {<<"A", "&", "L">>, <<"A", " ", "L">>, <<"A", "L">>}
PairIds == {<<"1">>, <<"2">>}
PairSamples ==
    {[kind |-> "pair", first |-> Record(n1, i1), second |-> Record(n2, i2)] :
        n1 \in PairNames, i1 \in PairIds, n2 \in PairNames, i2 \in PairIds}

\* two iterations of the row loop from `if details` to the persist, the
\* files accepting every write
PersistRows ==
    /\ pc = "Unit" /\ sample.kind = "pair"
    /\ LET one == SaveDataWithFallback(sample.first, RowFilename(sample.first, UnitTerm), AllOK)
           two == SaveDataWithFallback(sample.second, RowFilename(sample.second, UnitTerm), AllOK)
       IN /\ written' = one.writes \o two.writes
          /\ saved_file' = two.ret
          /\ details' = sample.second
    /\ pc' = "UnitDone"
    /\ UNCHANGED unitRest

\* Business names as the tiers give them (stripped, not empty): up to
\* MaxName characters, alone or followed by a padding that takes the name to
\* NameLimit characters and beyond
RECURSIVE Repeat(_, _)
Repeat(c, n) == IF n = 0 THEN <<>> ELSE <<c>> \o Repeat(c, n - 1)
Padding == Repeat("a", NameLimit - 1)
NameChars == {"A", "&", " "}
ShortNames ==
    {n \in UNION {[1..k -> NameChars] : k \in 1..MaxName} : Strip(n) = n}
NameChoices == ShortNames \cup {n \o Padding : n \in ShortNames}
NameSamples == {[kind |-> "name", name |-> n] : n \in NameChoices}

\* the row loop from `if details` to the file name, for a record that has a
\* business_name
Sanitize ==
    /\ pc = "Unit" /\ sample.kind = "name"
    /\ details' = Record(sample.name, <<"1">>)
    /\ saved_file' = RowFilename(details', UnitTerm)
    /\ pc' = "UnitDone"
    /\ UNCHANGED <<written, unitRest>>

\* A detail page with no element under the direct locators and these rows
\* in its tables
RowChoices ==
    { <<LabelName, Name1>>, <<LabelName, <<"L">>>>, <<LabelName, <<" ", "L", " ">>>>,
      <<LabelId, <<"1">>>>, <<LabelId, <<"2">>>>,
      << <<"Status">>, <<"a">> >>, <<LabelName>> }
RowsSamples ==
    {[kind |-> "rows", rows |-> r] :
        r \in UNION {[1..k -> RowChoices] : k \in 1..MaxTableRows}}
\* extract_business_details_robust(search_term) on that page, every row of
\* it read
ExtractRows ==
    /\ pc = "Unit" /\ sample.kind = "rows"
    /\ \E failing \in {{}, Selectors}, textOK \in BOOLEAN, io \in FetchEnvs :
         LET page == [ids |-> EmptyDict, rows |-> sample.rows, text |-> EmptyDict,
                      markup |-> Markup]
             env == [failing |-> failing, scanned |-> "all", textOK |-> textOK,
                     c1 |-> io.c1, c2 |-> io.c2, errOK |-> io.errOK, htmlOK |-> io.htmlOK]
             r == ExtractBusinessDetailsRobust(page, UnitTerm, env)
         IN /\ ~r.raised
            /\ details' = r.data /\ written' = r.writes
    /\ pc' = "UnitDone" /\ UNCHANGED <<saved_file, unitRest>>

\* Success records whose name has characters JSON escapes, or one no file
\* takes
ValueChars == {"A", "n", "\"", "\\", "\n"}
RecordNames ==
    {n \in UNION {[1..k -> ValueChars] : k \in 1..MaxName} : Strip(n) = n}
        \cup {<<"A", SUR>>}
RecordSamples ==
    {[kind |-> "record", record |-> Record(n, i)] : n \in RecordNames, i \in PairIds}
\* save_data_with_fallback(details, filename) on the record, and the file it
\* names read back (EmptyDict when that file is not a structured one)
RoundTrip ==
    /\ pc = "Unit" /\ sample.kind = "record"
    /\ \E env \in SaveEnvs :
         LET saved == SaveDataWithFallback(sample.record,
                                           RowFilename(sample.record, UnitTerm), env)
             at == {i \in DOMAIN saved.writes :
                       /\ saved.writes[i].path = saved.ret
                       /\ saved.writes[i].kind = "structured"}
         IN /\ ~saved.raised
            /\ written' = saved.writes /\ saved_file' = saved.ret
            /\ details' = IF at = {} THEN EmptyDict
                          ELSE JsonLoad(JsonDump(saved.writes[CHOOSE i \in at : TRUE].body))
    /\ pc' = "UnitDone" /\ UNCHANGED unitRest

\* Candidate records handed to the validator: texts, or a value json.dumps
\* does not take; the last has the entity's type and registry status as
\* extract_by_element_ids gives them
Candidates ==
    {[business_name |-> n, business_id |-> i] :
        n \in {Name1, <<OPAQUE>>}, i \in {<<"1">>, <<OPAQUE>>}}
    \cup {[business_name |-> Name1, business_id |-> <<"1">>,
           type |-> <<"L">>, status |-> <<"a">>]}
CandidateSamples == {[kind |-> "candidate", candidate |-> c] : c \in Candidates}
\* safe_extract_json_data(business_data, search_term); an exception that
\* leaves it is kept in outcome and raisedIn
SafeExtract ==
    /\ pc = "Unit" /\ sample.kind = "candidate"
    /\ \E contentOK, htmlOK \in BOOLEAN :
         LET r == SafeExtractJsonData(sample.candidate, UnitTerm, contentOK, htmlOK)
         IN /\ details' = r.data /\ saved_file' = r.html /\ written' = r.writes
            /\ IF r.raised
               THEN outcome' = "exception" /\ raisedIn' = "safe_extract_json_data"
               ELSE UNCHANGED <<outcome, raisedIn>>
    /\ pc' = "UnitDone"
    /\ UNCHANGED <<ret, exc, gate, termIdx, businesses, rowPtr, all_business_data,
                   total_companies_collected, sessionOpen, closeCount, termsTaken,
                   termWrote, trace, listed, sample, view, rowQuery, primaryFailed,
                   fallbackFailed>>

\* Detail pages with no element under the direct locators
TierSamples ==
    {[kind |-> "tiers", page |-> p] : p \in {q \in DetailPages : q.ids = EmptyDict}}
\* the three tiers of extract_business_details_robust on the page, every
\* read of it succeeding; details is the mapping they end with
Tiers ==
    /\ pc = "Unit" /\ sample.kind = "tiers"
    /\ LET r == RunTiers(sample.page, {}, "all", TRUE)
       IN details' = r.business_data /\ trace' = r.trace
    /\ pc' = "UnitDone"
    /\ UNCHANGED <<ret, exc, gate, termIdx, businesses, rowPtr, all_business_data,
                   total_companies_collected, sessionOpen, closeCount, outcome, raisedIn,
                   termsTaken, termWrote, listed, sample, view, rowQuery, primaryFailed,
                   fallbackFailed, saved_file, written>>

\* Calls of save_error_log: for a term, with the page's markup or without
LogSamples ==
    {[kind |-> "log", term |-> search_terms[t], hasSource |-> b] :
        t \in DOMAIN search_terms, b \in BOOLEAN}
\* save_error_log(search_term, error_message, page_source); errOK, htmlOK:
\* the error file and the markup capture can be written
LogError ==
    /\ pc = "Unit" /\ sample.kind = "log"
    /\ \E errOK, htmlOK \in BOOLEAN :
         LET r == SaveErrorLog(sample.term, sample.hasSource, errOK, htmlOK)
         IN saved_file' = r.ret /\ written' = r.writes
    /\ pc' = "UnitDone"
    /\ UNCHANGED <<details, unitRest>>

Samples ==
    PairSamples \cup NameSamples \cup RowsSamples \cup RecordSamples \cup CandidateSamples
        \cup TierSamples \cup LogSamples
UnitInit == pc = "Unit" /\ sample \in Samples /\ Blank
UnitNext ==
    \/ PersistRows \/ Sanitize \/ ExtractRows \/ RoundTrip \/ SafeExtract \/ Tiers
    \/ LogError
UnitSpec == UnitInit /\ [][UnitNext]_vars

\* ------------------------------------------------------------ properties
\* C1: every record the validation step returns with status 'success' (on
\* the success branch and on the essential-data-missing branch of
\* extract_business_details_robust) has a non-empty business_id and a
\* non-empty business_name.  `details` at Persist is that record.
C1_SuccessHasNameAndId ==
    (pc = "Persist" /\ Get(details, "status") = SUCCESS)
        => /\ Truthy(Get(details, "business_name"))
           /\ Truthy(Get(details, "business_id"))

\* C2: save_data_with_fallback never raises to its caller and never returns
\* None, whatever the file writes, the serialization and the page-markup
\* capture do.
C2_PersistReturnsLocation ==
    /\ raisedIn # "save_data_with_fallback"
    /\ (pc = "ReturnToList" /\ details # EmptyDict) => saved_file # NoPath

\* C3: once bootstrap has succeeded, every search term is taken up exactly
\* once and in list order, whatever fails while earlier terms or their rows
\* are handled (the operator's interrupt aside).
C3_EveryTermTakenInOrder ==
    /\ \A i \in DOMAIN termsTaken : termsTaken[i] = i
    /\ (pc = "Exit" /\ outcome \notin {"aborted", "interrupt"})
           => termsTaken = [i \in 1..NumTerms |-> i]

\* C4: when the direct-locator tier gives a non-empty business_name neither
\* the table tier nor the text tier is invoked, and the text tier is invoked
\* only when both earlier tiers gave no business_name.
C4_TierShortCircuit ==
    pc = "Persist" =>
        /\ trace.tiers \in {<<1>>, <<1, 2>>, <<1, 2, 3>>}
        /\ Truthy(trace.name1) => trace.tiers = <<1>>
        /\ (\E i \in DOMAIN trace.tiers : trace.tiers[i] = 3)
               => (~Truthy(trace.name1) /\ ~Truthy(trace.name2))
\* an extraction the first tier settled
C4_FirstTierNamed ==
    pc = "Persist" /\ Truthy(trace.name1) /\ trace.tiers = <<1>>

\* C5: run ends Aborted exactly when the homepage-first chain and the direct
\* fallback both failed, and then no term was ever taken up: nothing that
\* fails after bootstrap aborts the crawl.
C5_AbortedIffBothRoutesFail ==
    /\ outcome = "aborted" <=> (primaryFailed /\ fallbackFailed)
    /\ outcome = "aborted" => termsTaken = <<>>
    /\ termsTaken # <<>> => ~fallbackFailed
\* the program ended after an abort
C5_AbortedRun ==
    pc = "Exit" /\ outcome = "aborted" /\ primaryFailed /\ fallbackFailed

\* C6: on every way out of main (completion, abort, interrupt, exception)
\* close() has run at least once when the program ends, and close() never
\* raises, a second close() of a closed session included.
C6_TeardownAlwaysRuns ==
    /\ pc = "Exit" => closeCount >= 1
    /\ raisedIn # "close"
\* a completed crawl: run's own close(), then main's on the closed session
C6_ClosedTwice ==
    pc = "Exit" /\ outcome = "done" /\ closeCount = 2 /\ ~sessionOpen

\* C7: when the tiers end without both a business_name and a business_id,
\* the row's record has status data_extraction_failed or extraction_error,
\* and no such record is counted or kept for the combined artifact.
C7_NoPairIsAnErrorRecord ==
    /\ (pc = "Persist" /\ ~trace.pair)
           => Get(details, "status") \in {Str("data_extraction_failed"),
                                          Str("extraction_error")}
    /\ \A i \in DOMAIN all_business_data :
           /\ Truthy(all_business_data[i].business_name)
           /\ Truthy(all_business_data[i].business_id)
    /\ total_companies_collected = Len(all_business_data)

C9_UnserializableDemoted ==
    [][(pc = "Persist" /\ ~FileDumpOK(details) /\ outcome' # "interrupt")
          => /\ pc' = "ReturnToList"
             /\ \E i, j \in DOMAIN written' :
                   /\ written'[i].kind = "markup"
                   /\ written'[j].kind = "structured"
                   /\ Has(written'[j].body, "html_fallback_file")
                   /\ written'[j].body["html_fallback_file"] = written'[i].path
             /\ UNCHANGED sumVars]_vars

\* C11: files are named so that writes only ever add files: no persist of
\* a record goes to a location already written for a different record.
\* Here for the per-entity files of two rows of one result list.
C11_NoLocationSharedByTwoRecords ==
    (pc = "UnitDone" /\ sample.kind = "pair") =>
        \A i, j \in DOMAIN written :
            written[i].body # written[j].body => written[i].path # written[j].path

\* C12, as the source has it: the identifier in a per-entity file name is
\* the business name with each non-word character replaced by one '_'
\* (a run of non-word characters gives a run of '_' of the same length), cut
\* to its first 30 characters; it holds no non-word character.
C12_EachNonWordCharReplaced ==
    (pc = "UnitDone" /\ sample.kind = "name") =>
        LET name == sample.name
            file == saved_file[Len(saved_file)]
            clean == SubSeq(file, 2, Len(file) - 1)
        IN /\ saved_file = <<JSON_DIR, <<"business_">> \o clean \o <<".json">>>>
           /\ Len(clean) = Min(NameLimit, Len(name))
           /\ \A i \in DOMAIN clean :
                 /\ clean[i] \in WordChars
                 /\ clean[i] = (IF name[i] \in WordChars THEN name[i] ELSE "_")
\* a name longer than the limit, with two non-word characters in a row
C12_LongNameWithRun ==
    /\ pc = "UnitDone" /\ sample.kind = "name"
    /\ Len(sample.name) > NameLimit
    /\ sample.name[1] = "&" /\ sample.name[2] = " "
\* C12, as stated: consecutive non-word characters give one filler only.
\* No name drawn holds a '_' of its own, so the identifier would never hold
\* two '_' in a row.
C12_RunsCollapsed ==
    (pc = "UnitDone" /\ sample.kind = "name") =>
        LET file == saved_file[Len(saved_file)]
        IN \A i \in 2..(Len(file) - 2) : ~(file[i] = "_" /\ file[i + 1] = "_")

\* C13, as the source has it: a run that reaches Done with no success
\* record writes no combined artifact (and nothing else at its end); with
\* one or more it writes at most one, none when the write fails, and the
\* one written carries the whole search-term list, an extraction timestamp,
\* the companies collected, and a total equal to their number and to the
\* count of success records.
C13_CombinedArtifact ==
    outcome = "done" =>
        LET combined == {i \in DOMAIN written :
                            /\ written[i].path = CombinedFilename
                            /\ written[i].kind = "structured"}
        IN /\ Cardinality(combined) <= 1
           /\ all_business_data = <<>> => written = <<>>
           /\ \A i \in combined :
                 LET body == written[i].body
                 IN /\ body.companies = all_business_data
                    /\ body.total_companies = Len(body.companies)
                    /\ body.total_companies = total_companies_collected
                    /\ body.search_terms_used = search_terms
                    /\ Has(body, "extraction_date")
\* a completed run with two success records and its combined artifact
C13_TwoCollected ==
    /\ pc = "Exit" /\ outcome = "done" /\ Len(all_business_data) = 2
    /\ \E i \in DOMAIN written :
          written[i].path = CombinedFilename /\ written[i].kind = "structured"
\* C13, as stated: every run that reaches Done has written exactly one
\* combined artifact, whatever the number of success records.
C13_AlwaysOneCombined ==
    outcome = "done" =>
        Cardinality({i \in DOMAIN written :
                        /\ written[i].path = CombinedFilename
                        /\ written[i].kind = "structured"}) = 1

\* C14, as the source has it: the challenge check stands between every
\* navigation the claim lists and the next use of the page, except that the
\* homepage's title is read before its check. The search page of the
\* bootstrap, of the fallback and of the return between terms, the page in
\* front of the search control, the result page and the detail page are
\* reached by the coordinator only out of the check (or the wait it turned
\* into); a navigation that did not fail hands over to the check. The
\* return to the result list between two rows is followed by no check.
C14_CheckedBoundaries ==
    [][/\ (pc' # pc /\ pc' \in {"SearchNav", "BootDone", "Submit", "ResultList", "DetailVerify"})
            => (pc \in {"Check", "AwaitClear"})
       /\ (pc \in {"HomeTitle", "SearchNav"}) => (pc' \in {"Check", "FallbackNav", "Finally"})
       /\ (pc = "FallbackNav") => (pc' \in {"Check", "Abort", "Finally"})
       /\ (pc = "NextTerm" /\ pc' # "Finally" /\ termIdx < NumTerms)
            => (pc' \in {"Check", "ForTerm"} /\ (pc' = "Check" => ret' = "ForTerm"))
       /\ (pc = "ResultList" /\ pc' = "Check") => (businesses' = <<>> /\ ret' = "ForTerm")
       /\ (pc = "ReturnToList") => (pc' # "Check")
      ]_vars
\* a check that runs in front of the search control after the search page
\* came back between two terms
C14_CheckedSecondTerm == pc = "Check" /\ ret = "Submit" /\ termIdx = 2
\* C14, as stated: the homepage too is handed to the check before anything
\* is read from it.
C14_HomepageCheckedFirst ==
    [][(pc \in {"HomeNav", "HomeTitle", "SearchNav"})
           => (pc' \in {"Check", "FallbackNav", "Finally"})]_vars

\* C15: the gate awaits clearance exactly while the wait for the operator
\* is on, and the wait ends only with the operator's signal, after which the
\* caller goes on where the check was called from (an interrupt of the run
\* apart).
C15_ClearedOnlyBySignal ==
    [][/\ (gate = "AwaitingClearance") <=> (pc = "AwaitClear")
       /\ (pc = "AwaitClear")
            => ((pc' = ret /\ gate' = "Clear") \/ outcome' = "interrupt")]_vars

\* C16: a detail page with no element under the direct locators, and with
\* table rows labelled 'Entity Name' and 'Entity ID' that show a value, gives
\* a record whose business_name and business_id are the values of such rows
\* and whose status is success.
C16_TableTierGivesNameAndId ==
    (pc = "UnitDone" /\ sample.kind = "rows") =>
        LET rows == sample.rows
            shown(label) == {i \in DOMAIN rows :
                               /\ Len(rows[i]) >= 2 /\ rows[i][1] = label
                               /\ Strip(rows[i][2]) # Empty}
        IN (shown(LabelName) # {} /\ shown(LabelId) # {}) =>
              /\ \E n \in shown(LabelName) : Get(details, "business_name") = Strip(rows[n][2])
              /\ \E n \in shown(LabelId) : Get(details, "business_id") = Strip(rows[n][2])
              /\ Get(details, "status") = SUCCESS
\* a page whose tables have an id row and a padded name row, extracted
C16_IdRowThenPaddedName ==
    /\ pc = "UnitDone" /\ sample.kind = "rows"
    /\ sample.rows = << <<LabelId, <<"2">>>>, <<LabelName, <<" ", "L", " ">>>> >>
    /\ Get(details, "business_name") = <<"L">>

\* C17: a success record persisted in structured form reads back, from the
\* file persist returned, as a mapping with the record's value under every
\* key of the record.
C17_RoundTrip ==
    (/\ pc = "UnitDone" /\ sample.kind = "record"
     /\ \E i \in DOMAIN written :
           written[i].path = saved_file /\ written[i].kind = "structured")
        => \A k \in DOMAIN sample.record : Get(details, k) = sample.record[k]
\* a record whose name has a backslash and a quote, written and read back
C17_EscapedName ==
    /\ pc = "UnitDone" /\ sample.kind = "record"
    /\ sample.record.business_name = <<"A", "\\", "\"">>
    /\ written # <<>> /\ written[1].kind = "structured" /\ written[1].path = saved_file
    /\ details # EmptyDict

\* C18, as the source has it: in the table tier the value of an attribute
\* is that of the last row, in document order, whose label matches the
\* attribute and which shows a value; each matching row overwrites what an
\* earlier one set.
C18_LastRowWins ==
    (pc = "UnitDone" /\ sample.kind = "rows") =>
        LET rows == sample.rows
            shown(label) == {i \in DOMAIN rows :
                               /\ Len(rows[i]) >= 2 /\ rows[i][1] = label
                               /\ Strip(rows[i][2]) # Empty}
            last(label) == CHOOSE i \in shown(label) : \A j \in shown(label) : j <= i
        IN (shown(LabelName) # {} /\ shown(LabelId) # {}) =>
              /\ Get(details, "business_name") = Strip(rows[last(LabelName)][2])
              /\ Get(details, "business_id") = Strip(rows[last(LabelId)][2])
\* a page with two name rows of different values and an id row, extracted
C18_TwoNameRows ==
    /\ pc = "UnitDone" /\ sample.kind = "rows"
    /\ sample.rows = << <<LabelName, Name1>>, <<LabelName, <<"L">>>>, <<LabelId, <<"1">>>> >>
    /\ Get(details, "business_name") = <<"L">>
\* C18, as stated: the value of an attribute is that of the first row whose
\* label matches it; a later matching row does not overwrite it.
C18_FirstRowWins ==
    (pc = "UnitDone" /\ sample.kind = "rows") =>
        LET rows == sample.rows
            shown(label) == {i \in DOMAIN rows :
                               /\ Len(rows[i]) >= 2 /\ rows[i][1] = label
                               /\ Strip(rows[i][2]) # Empty}
            first(label) == CHOOSE i \in shown(label) : \A j \in shown(label) : i <= j
        IN (shown(LabelName) # {} /\ shown(LabelId) # {}) =>
              /\ Get(details, "business_name") = Strip(rows[first(LabelName)][2])
              /\ Get(details, "business_id") = Strip(rows[first(LabelId)][2])

\* C19: every file of raw markup written in a crawl is under
\* html_fallback/, and every file written under json/ is a structured
\* record; the record of the essential-data-missing branch, which has the
\* html_content key, puts no raw markup under json/.
C19_MarkupOnlyUnderHtmlFallback ==
    \A i \in DOMAIN written :
        /\ written[i].kind = "markup" => written[i].path[1] = HTML_DIR
        /\ written[i].path[1] = JSON_DIR => written[i].kind = "structured"

\* C20: for every term at most 3 result rows are activated; the row in hand
\* is one of the first three of the resolved list, the list is in the
\* table's order, and no entry of it is the header row (rows[0]).
C20_FirstThreeRowsInOrder ==
    /\ \A i \in DOMAIN businesses :
          /\ businesses[i] >= 1
          /\ i > 1 => businesses[i - 1] < businesses[i]
    /\ rowPtr <= RowLimit /\ rowPtr <= Len(businesses)
    /\ pc \in {"DetailNav", "DetailVerify", "ClickFail", "Extract", "Persist", "ReturnToList"}
         => rowPtr >= 1
    /\ (pc = "Check" /\ ret = "DetailVerify") => rowPtr \in 1..RowLimit
\* the third row of a list of more than three is being activated
C20_ThirdOfMore ==
    pc = "DetailNav" /\ rowPtr = RowLimit /\ Len(businesses) > RowLimit

\* C10: extract_business_details_robust never raises, whatever PageDriver
\* call fails: it returns a mapping to run.
C10_ExtractionNeverRaises ==
    /\ raisedIn # "extract_business_details_robust"
    /\ pc = "Persist" => details # EmptyDict

\* C21: a row's selection control is activated only with a handle that
\* click_business_by_index got from its own query of the table on the page
\* shown; when that page has no results table, or the table has no row at
\* the recorded index, the row fails with no click, no navigation and no
\* error log, and the loop goes on to the next row or leaves the term.
C21_ClickUsesLiveHandle ==
    [][/\ (pc' = "Check" /\ ret' = "DetailVerify")
            => ((pc = "DetailNav" /\ rowQuery' = "clicked") \/ pc = "Check")
       /\ (view' = "detail" /\ view # "detail") => (pc = "DetailNav" /\ rowQuery' = "clicked")
       /\ (pc = "DetailNav" /\ rowQuery' \in {"no_table", "short"})
            => (/\ pc' \in {"DetailNav", "NextTerm"} /\ view' = view
                /\ written' = <<>> /\ termWrote' = termWrote)
      ]_vars
\* the second row's control was activated, after the return from the first
C21_SecondRowClicked ==
    pc = "Check" /\ ret = "DetailVerify" /\ rowPtr = 2 /\ rowQuery = "clicked"

\* C22: from the arrival at a row's detail view the row's extraction (with
\* its validation) and then its persist are done, the page still the detail
\* view, before the return step; the next row is taken only out of a return
\* step that succeeded; a return step that failed leaves the term's other
\* rows out and the run goes on to the end of the term.
C22_ReturnAfterPersist ==
    [][/\ (pc = "Extract") => (pc' \in {"Persist", "Finally"} /\ view' = view)
       /\ (pc = "Persist") => (pc' \in {"ReturnToList", "Finally"} /\ view' = view)
       /\ (pc' = "ReturnToList" /\ pc # "ReturnToList") => (pc = "Persist")
       /\ (view = "detail" /\ view' = "results" /\ pc # "Submit")
            => (pc = "ReturnToList" /\ rowPtr < Len(businesses))
       /\ (pc = "ReturnToList" /\ pc' = "DetailNav")
            => (view' = "results" /\ rowPtr' = rowPtr + 1)
       /\ (pc = "ReturnToList" /\ view' = "unknown")
            => (/\ pc' = "NextTerm" /\ rowPtr' = 0 /\ termIdx' = termIdx
                /\ outcome' = "running")
      ]_vars
\* the return step from the first of several rows has failed
C22_ReturnFailed ==
    /\ pc = "NextTerm" /\ view = "unknown" /\ Len(businesses) >= 2
    /\ Len(all_business_data) = 1

\* C23: whenever the coordinator sets out to resolve a row on the live
\* page, the page shown is the result list: every activation of a selection
\* control since the list was resolved has been followed by a return to it.
C23_RowResolvedOnResultList == (pc = "DetailNav") => (view = "results")

\* C24, as the source has it: at the end of the row loop of a term that is
\* not the last, and after an empty result list of any term, the last one
\* too, the coordinator navigates to the search page and calls the
\* challenge check, whose return or failure both lead on to the for
\* statement; a navigation that fails leads there as well, the run still
\* under way. At the end of the last term's row loop no navigation is made.
C24_BackToSearchPage ==
    [][/\ (/\ pc' # "Finally"
           /\ \/ pc = "NextTerm" /\ termIdx < NumTerms
              \/ pc = "ResultList" /\ businesses' = <<>>)
            => (/\ outcome' = "running" /\ termIdx' = termIdx
                /\ \/ /\ pc' = "Check" /\ ret' = "ForTerm" /\ exc' = "ForTerm"
                      /\ view' = "search"
                   \/ pc' = "ForTerm" /\ view' = "unknown")
       /\ (pc = "NextTerm" /\ termIdx = NumTerms /\ pc' # "Finally")
            => (pc' = "ForTerm" /\ view' = view)
       /\ (pc' = "SetupQuery") => (pc = "ForTerm")
      ]_vars
\* the last term's result list was empty, and the search page was loaded
\* again
C24_LastTermEmptyList ==
    /\ pc = "Check" /\ ret = "ForTerm" /\ termIdx = NumTerms
    /\ listed # "" /\ businesses = <<>> /\ view = "search"
\* C24, as stated: the navigation and its check are made for every term
\* that is not the last, and after the last term no navigation is made.
C24_NoNavigationAfterLastTerm ==
    [][/\ (/\ pc' # "Finally" /\ termIdx < NumTerms
           /\ \/ pc = "NextTerm"
              \/ pc = "ResultList" /\ businesses' = <<>>)
            => (\/ pc' = "Check" /\ ret' = "ForTerm" /\ view' = "search"
                \/ pc' = "ForTerm" /\ view' = "unknown")
       /\ (termIdx = NumTerms /\ pc \in {"ResultList", "NextTerm"})
            => (view' = view /\ pc' # "Check")
      ]_vars

C26_ReachesDoneOrAborted == <>(outcome \in {"done", "aborted"})

\* C27: for a candidate record that can be serialized the validator
\* returns a record in which every attribute of the candidate, the registry
\* status among them, has the candidate's value.
C27_AttributesUnchanged ==
    (pc = "UnitDone" /\ sample.kind = "candidate" /\ DumpsOK(sample.candidate))
      => \A k \in DOMAIN sample.candidate : Get(details, k) = sample.candidate[k]

\* C28: when the table tier found attributes but no business_name and the
\* text tier ran, every attribute the table tier found is in the mapping the
\* tiers end with, with the table tier's value or with the text tier's own.
C28_TableAttributesKept ==
    (pc = "UnitDone" /\ sample.kind = "tiers") =>
        LET t2 == ExtractFromTables(sample.page, "all")
            t3 == ExtractFromPageText(sample.page, TRUE)
        IN (trace.tiers = <<1, 2, 3>>) =>
              \A k \in DOMAIN t2 :
                 /\ Has(details, k)
                 /\ details[k] = (IF Has(t3, k) THEN t3[k] ELSE t2[k])

\* C29: every term's SetupQuery finds the search page as a navigation has
\* just loaded it, nothing having worked on the page since; so too after a
\* term given up because its setup or its submit failed.
C29_SetupOnFreshSearchPage == (pc = "SetupQuery") => (view = "search")

\* C30: when save_error_log was given the page's markup and the capture of
\* it was written, the error file under errors/ that save_error_log
\* returned has the capture's location in it.
C30_ErrorFileNamesCapture ==
    (pc = "UnitDone" /\ sample.kind = "log" /\ sample.hasSource) =>
        \A j \in DOMAIN written :
            written[j].kind = "markup" =>
                \E i \in DOMAIN written :
                    /\ written[i].path = saved_file /\ written[i].path[1] = ERR_DIR
                    /\ written[i].kind = "structured"
                    /\ Get(written[i].body, "html_fallback_file") = written[j].path

====
